---- MODULE Spec2Model ----
(***************************************************************************)
(* NewsWale (src/src/main.tsx): the feed loader (fetchNews, loadNews), the *)
(* bookmark store (useBookmarks) and the featured-article rotation of the  *)
(* NewsWale component, as one state machine.                               *)
(*                                                                         *)
(* An article is modelled by its identifier.  Values of the persisted      *)
(* store are token sequences, so JSON.stringify and JSON.parse are real    *)
(* conversions between token sequences and in-memory values.  The pure     *)
(* functions on a provider record (calculateReadTime, formatDate,          *)
(* transformNewsDataArticle) and the request of fetchNews are applied to   *)
(* arguments of their own in SpecFunctions, with strings as sequences of   *)
(* pieces.                                                                 *)
(***************************************************************************)
EXTENDS Integers, Sequences, FiniteSets, TLC

VARIABLES
    phase,                \* "constructed", "mounted" or "crashed" (render threw)
    storage,              \* localStorage item 'newswale_bookmarks'
    bookmarks,            \* useBookmarks state (a JS value)
    selectedCategory,
    selectedArticle,      \* id of the article in the reading modal, or None
    articles,             \* list of article ids
    loading,
    error,
    currentFeaturedIndex,
    isSliding,
    inflight,             \* loads whose fetchNews call has not settled
    loadsStarted,         \* number of loadNews calls so far
    lastApplied,          \* number of the load whose result was installed last
    slideInterval,        \* 0, or the articles.length captured by the interval
    timeouts,             \* pending 300 ms timeouts, in firing order
    lastOp,               \* the handler that ran last, with its input
    callArg,              \* the argument of a call of one of the pure functions
    callResult            \* what the call returned

appVars == <<phase, storage, bookmarks, selectedCategory, selectedArticle,
             articles, loading, error, currentFeaturedIndex, isSliding,
             inflight, loadsStarted, lastApplied, slideInterval, timeouts,
             lastOp>>

vars == <<phase, storage, bookmarks, selectedCategory, selectedArticle,
          articles, loading, error, currentFeaturedIndex, isSliding,
          inflight, loadsStarted, lastApplied, slideInterval, timeouts,
          lastOp, callArg, callResult>>

----------------------------------------------------------------------------
(* Bounds *)

MaxResults == 4      \* longest provider result list
MaxLoads == 3        \* loadNews calls in one behaviour
MaxTimeouts == 2     \* pending 300 ms timeouts
MaxBookmarks == 2    \* length of the bookmark list
MaxMinutes == 2      \* longest text, in units of WordsPerMinute words

----------------------------------------------------------------------------
(* Small helpers *)

Min(a, b) == IF a <= b THEN a ELSE b

Range(s) == {s[i] : i \in 1..Len(s)}

RECURSIVE SeqFilterOut(_, _)
\* s without every occurrence of x, order kept
SeqFilterOut(s, x) ==
    IF s = <<>> THEN <<>>
    ELSE IF Head(s) = x THEN SeqFilterOut(Tail(s), x)
         ELSE <<Head(s)>> \o SeqFilterOut(Tail(s), x)

None == "none"

----------------------------------------------------------------------------
(* Article identifiers *)

LiveIds == <<"n1", "n2", "n3", "n4", "n5", "n6">>

UndefinedId == "undefined"

\* a provider id with 'fallback' inside it
LookalikeId == "x-fallback-9"

\* the text of an identifier, as the pieces String.includes can match
IdText(id) ==
    CASE id = "fallback-1" -> <<"fallback", "-", "1">>
      [] id = "fallback-2" -> <<"fallback", "-", "2">>
      [] id = LookalikeId -> <<"x", "-", "fallback", "-", "9">>
      [] OTHER -> <<id>>

\* id.includes('fallback')
includesFallback(id) == \E i \in 1..Len(IdText(id)) : IdText(id)[i] = "fallback"

getFallbackArticles == <<"fallback-1", "fallback-2">>

----------------------------------------------------------------------------
(* Categories *)

categories ==
    {"All", "business", "technology", "sports", "entertainment",
     "politics", "world", "science", "health", "top", "WANTED"}

\* categoryMap[c]; "" also stands for undefined, which is falsy as well
categoryMap(c) ==
    IF c \in {"business", "technology", "sports", "entertainment",
              "politics", "world", "science", "health", "top"}
    THEN c
    ELSE ""

\* the category buttons pressed in the model
UsedCategories == {"All", "business", "WANTED"}

API_KEY == "VITE_NEWS_API_KEY"

Param(k, v) == [key |-> k, value |-> v]

\* requestParams appending the category parameter whatever the category
requestParams_alwaysCategory(category) ==
    <<Param("apikey", API_KEY), Param("language", "en"), Param("size", "10")>>
    \o <<Param("category", categoryMap(category))>>

\* the URLSearchParams of the request of fetchNews(category)
requestParams(category) ==
    <<Param("apikey", API_KEY), Param("language", "en"), Param("size", "10")>>
    \o (IF category # "" /\ category # "All" /\ categoryMap(category) # ""
        THEN <<Param("category", categoryMap(category))>>
        ELSE <<>>)

----------------------------------------------------------------------------
(* The provider's answer to one request *)

NullRecord == "null"       \* a null entry of results
NoIdRecord == "noid"       \* an entry without article_id

NoOutcome == [kind |-> "none", status |-> "", hasResults |-> FALSE, results |-> <<>>]

LiveResults(n) == SubSeq(LiveIds, 1, n)

Outcomes ==
    {[kind |-> k, status |-> "", hasResults |-> FALSE, results |-> <<>>] :
        k \in {"network", "http", "badjson"}}
    \cup {[kind |-> "http", status |-> "success", hasResults |-> TRUE,
           results |-> LiveResults(2)]}
    \cup {[kind |-> "body", status |-> "error", hasResults |-> TRUE,
           results |-> LiveResults(1)]}
    \cup {[kind |-> "body", status |-> "success", hasResults |-> FALSE,
           results |-> <<>>]}
    \cup {[kind |-> "body", status |-> "success", hasResults |-> TRUE,
           results |-> <<LookalikeId>>]}
    \cup {[kind |-> "body", status |-> "success", hasResults |-> TRUE,
           results |-> LiveResults(n)] : n \in 0..MaxResults}
    \cup {[kind |-> "body", status |-> "success", hasResults |-> TRUE,
           results |-> <<"n1", NullRecord>>]}
    \cup {[kind |-> "body", status |-> "success", hasResults |-> TRUE,
           results |-> <<NoIdRecord>>]}

\* transformNewsDataArticle: the id of the article, or a thrown TypeError
transformNewsDataArticle(rec) ==
    IF rec = NullRecord THEN [ok |-> FALSE, id |-> ""]
    ELSE IF rec = NoIdRecord THEN [ok |-> TRUE, id |-> UndefinedId]
    ELSE [ok |-> TRUE, id |-> rec]

\* fetchNewsTry without the check for missing or empty results
fetchNewsTry_noEmptyCheck(category, o) ==
    IF o.kind \in {"network", "http", "badjson"} THEN [ok |-> FALSE, val |-> <<>>]
    ELSE IF o.status # "success" THEN [ok |-> FALSE, val |-> <<>>]
    ELSE IF ~o.hasResults THEN [ok |-> FALSE, val |-> <<>>]
    ELSE IF \E i \in 1..Len(o.results) : ~transformNewsDataArticle(o.results[i]).ok
         THEN [ok |-> FALSE, val |-> <<>>]
    ELSE [ok |-> TRUE,
          val |-> [i \in 1..Len(o.results) |-> transformNewsDataArticle(o.results[i]).id]]

\* fetchNewsTry without the test of data.status
fetchNewsTry_noStatusCheck(category, o) ==
    IF o.kind \in {"network", "http", "badjson"} THEN [ok |-> FALSE, val |-> <<>>]
    ELSE IF ~o.hasResults \/ Len(o.results) = 0
         THEN [ok |-> TRUE, val |-> getFallbackArticles]
    ELSE IF \E i \in 1..Len(o.results) : ~transformNewsDataArticle(o.results[i]).ok
         THEN [ok |-> FALSE, val |-> <<>>]
    ELSE [ok |-> TRUE,
          val |-> [i \in 1..Len(o.results) |-> transformNewsDataArticle(o.results[i]).id]]

\* the try block of fetchNews: ok = FALSE when it throws
fetchNewsTry(category, o) ==
    IF o.kind = "network" THEN [ok |-> FALSE, val |-> <<>>]
    ELSE IF o.kind = "http" THEN [ok |-> FALSE, val |-> <<>>]
    ELSE IF o.kind = "badjson" THEN [ok |-> FALSE, val |-> <<>>]
    ELSE IF o.status # "success" THEN [ok |-> FALSE, val |-> <<>>]
    ELSE IF ~o.hasResults \/ Len(o.results) = 0
         THEN [ok |-> TRUE, val |-> getFallbackArticles]
    ELSE IF \E i \in 1..Len(o.results) : ~transformNewsDataArticle(o.results[i]).ok
         THEN [ok |-> FALSE, val |-> <<>>]
    ELSE [ok |-> TRUE,
          val |-> [i \in 1..Len(o.results) |-> transformNewsDataArticle(o.results[i]).id]]

\* fetchNews without its catch block
fetchNews_noCatch(category, o) ==
    IF fetchNewsTry(category, o).ok
    THEN [rejected |-> FALSE, val |-> fetchNewsTry(category, o).val]
    ELSE [rejected |-> TRUE, val |-> <<>>]

\* fetchNews: rejected = TRUE when the promise rejects
fetchNews(category, o) ==
    IF fetchNewsTry(category, o).ok
    THEN [rejected |-> FALSE, val |-> fetchNewsTry(category, o).val]
    ELSE [rejected |-> FALSE, val |-> getFallbackArticles]

----------------------------------------------------------------------------
(* JSON and the persisted store *)

Punct(c) == [t |-> "punct", v |-> c]
StrTok(s) == [t |-> "str", v |-> s]
NumTok(n) == [t |-> "num", v |-> n]
LitTok(w) == [t |-> "lit", v |-> w]

JsString(s) == [t |-> "string", v |-> s, items |-> <<>>]
JsNumber(n) == [t |-> "number", v |-> n, items |-> <<>>]
JsNull == [t |-> "null", v |-> "", items |-> <<>>]
JsObject == [t |-> "object", v |-> "", items |-> <<>>]
JsArray(items) == [t |-> "array", v |-> "", items |-> items]

ScalarToken(val) ==
    CASE val.t = "string" -> StrTok(val.v)
      [] val.t = "number" -> NumTok(val.v)
      [] OTHER -> LitTok("null")

RECURSIVE JoinItems(_)
JoinItems(items) ==
    IF items = <<>> THEN <<>>
    ELSE IF Len(items) = 1 THEN <<ScalarToken(items[1])>>
    ELSE <<ScalarToken(items[1]), Punct(",")>> \o JoinItems(Tail(items))

JSONstringify(val) ==
    CASE val.t = "array" -> <<Punct("[")>> \o JoinItems(val.items) \o <<Punct("]")>>
      [] val.t = "object" -> <<Punct("{"), Punct("}")>>
      [] OTHER -> <<ScalarToken(val)>>

IsScalarToken(tok) == tok.t \in {"str", "num"} \/ tok = LitTok("null")

ScalarValue(tok) ==
    CASE tok.t = "str" -> JsString(tok.v)
      [] tok.t = "num" -> JsNumber(tok.v)
      [] OTHER -> JsNull

\* the tokens between the brackets: scalars separated by commas
IsArrayBody(body) ==
    \/ body = <<>>
    \/ /\ Len(body) % 2 = 1
       /\ \A i \in 1..Len(body) :
            IF i % 2 = 1 THEN IsScalarToken(body[i]) ELSE body[i] = Punct(",")

ArrayBodyItems(body) ==
    [k \in 1..((Len(body) + 1) \div 2) |-> ScalarValue(body[2 * k - 1])]

\* JSON.parse: ok = FALSE when it throws SyntaxError
JSONparse(text) ==
    IF Len(text) = 1 /\ IsScalarToken(text[1])
    THEN [ok |-> TRUE, val |-> ScalarValue(text[1])]
    ELSE IF text = <<Punct("{"), Punct("}")>>
    THEN [ok |-> TRUE, val |-> JsObject]
    ELSE IF /\ Len(text) >= 2
            /\ text[1] = Punct("[")
            /\ text[Len(text)] = Punct("]")
            /\ IsArrayBody(SubSeq(text, 2, Len(text) - 1))
    THEN [ok |-> TRUE, val |-> JsArray(ArrayBodyItems(SubSeq(text, 2, Len(text) - 1)))]
    ELSE [ok |-> FALSE, val |-> JsNull]

Absent == [present |-> FALSE, text |-> <<>>]
Stored(text) == [present |-> TRUE, text |-> text]

\* loadBookmarks without setBookmarks
loadBookmarks_keepsState(store, prev) == prev

\* the bookmark effect of useBookmarks, applied to the initial state []
loadBookmarks(store, prev) ==
    IF store.present /\ store.text # <<>>
    THEN IF JSONparse(store.text).ok THEN JSONparse(store.text).val ELSE prev
    ELSE prev

\* the bookmark state of a freshly opened page once its load effect has run
rehydrate(store) == loadBookmarks(store, JsArray(<<>>))

\* prev.includes(articleId)
bookmarksIncludes(prev, articleId) ==
    \E i \in 1..Len(prev.items) : prev.items[i] = JsString(articleId)

\* toggleBookmark without the includes test
toggleBookmark_append(prev, articleId) ==
    JsArray(Append(prev.items, JsString(articleId)))

\* the updater of toggleBookmark
toggleBookmark(prev, articleId) ==
    IF bookmarksIncludes(prev, articleId)
    THEN JsArray(SeqFilterOut(prev.items, JsString(articleId)))
    ELSE JsArray(Append(prev.items, JsString(articleId)))

\* toggleStore writing the list of before the toggle
toggleStore_stale(prev, articleId) ==
    [present |-> TRUE, text |-> JSONstringify(prev)]

\* what the updater of toggleBookmark writes with localStorage.setItem
toggleStore(prev, articleId) ==
    [present |-> TRUE, text |-> JSONstringify(toggleBookmark(prev, articleId))]

\* values on which .includes is callable
hasIncludes(val) == val.t = "array"

----------------------------------------------------------------------------
(* What the component renders *)

featuredArticles(arts) == SubSeq(arts, 1, Min(3, Len(arts)))

remainingArticles(arts) == SubSeq(arts, 4, Len(arts))

hasCurrentFeatured(arts, idx) == idx + 1 <= Len(featuredArticles(arts))

\* ids of the featured and list cards on the page
pageCards(ld, err, arts, idx) ==
    IF ~ld /\ err = "null"
    THEN (IF hasCurrentFeatured(arts, idx) THEN {arts[idx + 1]} ELSE {})
         \cup Range(remainingArticles(arts))
    ELSE {}

\* ids for which render evaluates bookmarks.includes(id)
bookmarkButtons(ld, err, arts, idx, sel) ==
    pageCards(ld, err, arts, idx) \cup (IF sel # None THEN {sel} ELSE {})

\* the page behind the modal: the fixed inset-0 overlay covers it and
\* useFocusTrap keeps the keyboard focus inside the dialog
pageControls(sel) == sel = None

\* ids whose bookmark button can be pressed
bookmarkClickable(ld, err, arts, idx, sel) ==
    IF pageControls(sel) THEN pageCards(ld, err, arts, idx) ELSE {sel}

\* ids whose READ button can be pressed
readButtons(ld, err, arts, idx, sel) ==
    IF pageControls(sel) THEN pageCards(ld, err, arts, idx) ELSE {}

\* render evaluates bookmarks.includes(id) for every bookmark button
renderThrows(bm, ld, err, arts, idx, sel) ==
    ~hasIncludes(bm) /\ bookmarkButtons(ld, err, arts, idx, sel) # {}

rendered(bm, ld, err, arts, idx, sel) ==
    IF renderThrows(bm, ld, err, arts, idx, sel) THEN "crashed" ELSE "mounted"

----------------------------------------------------------------------------
(* State of the component *)

ErrNull == "null"
ErrDemo == "Using demo content - API temporarily unavailable"
ErrFailed == "Failed to load news. Showing demo content."

\* cause: "mount" or "category", the run of the load effect that started it
Load(n, c, cause) ==
    [seq |-> n, category |-> c, cause |-> cause, params |-> requestParams(c)]

NoLoad == [seq |-> 0, category |-> "", cause |-> "", params |-> <<>>]

\* the handler that ran, with its argument (a category or an article id)
Op(name, arg) == [op |-> name, arg |-> arg, load |-> NoLoad, outcome |-> NoOutcome]

\* the completion of load l on outcome o
LoadOp(l, o) == [op |-> "loadComplete", arg |-> "", load |-> l, outcome |-> o]

----------------------------------------------------------------------------
(* Strings and provider records *)

\* A string is the sequence of its pieces: Space is one space character,
\* Newline one line break, any other piece a run of other characters.
Space == " "
Newline == "\n"

\* a value that may be null or undefined; val is a string or a list
Null == [null |-> TRUE, val |-> <<>>]
Str(s) == [null |-> FALSE, val |-> s]

\* truthiness of a string, null or undefined: '' is falsy as well
truthy(v) == ~v.null /\ v.val # <<>>

\* a || b
Or(a, b) == IF truthy(a) THEN a ELSE b

\* list?.[0]: undefined for a null list and for an empty one
firstOf(list) ==
    IF list.null \/ list.val = <<>> THEN Null ELSE list.val[1]

\* n words, sep between two neighbours
Join(n, sep) ==
    [i \in 1..(IF n = 0 THEN 0 ELSE 2 * n - 1) |->
        IF i % 2 = 1 THEN "w" ELSE sep]

WordsPerMinute == 200

\* content.split(' ').length
splitLength(content) ==
    Cardinality({i \in 1..Len(content) : content[i] = Space}) + 1

\* `${minutes} min read`
minRead(minutes) == <<ToString(minutes), Space, "min", Space, "read">>

\* calculateReadTime of a string
calculateReadTime(content) ==
    IF content = <<>> THEN <<"1", Space, "min", Space, "read">>
    ELSE minRead((splitLength(content) + WordsPerMinute - 1) \div WordsPerMinute)

Months ==
    <<"January", "February", "March", "April", "May", "June", "July",
      "August", "September", "October", "November", "December">>

Years == {"1995", "2024"}

TwoDigits(i) == IF i < 10 THEN "0" \o ToString(i) ELSE ToString(i)

InvalidDate == [valid |-> FALSE, year |-> "", month |-> 0, day |-> 0]

\* new Date(dateString), for 'YYYY-MM-DD' with or without ' hh:mm:ss'; any
\* other string gives an invalid date, no exception
NewDate(dateString) ==
    IF /\ Len(dateString) \in {5, 7}
       /\ dateString[1] \in Years
       /\ dateString[2] = "-"
       /\ dateString[4] = "-"
       /\ \E m \in 1..12 : TwoDigits(m) = dateString[3]
       /\ \E d \in 1..31 : TwoDigits(d) = dateString[5]
       /\ Len(dateString) = 7 => dateString[6] = Space
    THEN [valid |-> TRUE,
          year |-> dateString[1],
          month |-> CHOOSE m \in 1..12 : TwoDigits(m) = dateString[3],
          day |-> CHOOSE d \in 1..31 : TwoDigits(d) = dateString[5]]
    ELSE InvalidDate

\* date.toLocaleDateString('en-US', {year: 'numeric', month: 'long', day:
\* 'numeric'}): 'Invalid Date' for an invalid date, no exception
toLocaleDateString(date) ==
    IF date.valid
    THEN <<Months[date.month], Space, ToString(date.day) \o ",", Space, date.year>>
    ELSE <<"Invalid", Space, "Date">>

\* formatDate: neither call of its try block throws, so the catch that
\* returns dateString is never entered
formatDate(dateString) == toLocaleDateString(NewDate(dateString))

DefaultAuthor == <<"NewsWale", Space, "Staff">>
DefaultCategory == <<"General">>
DefaultContent ==
    <<"Content", Space, "not", Space, "available.", Space, "Visit", Space,
      "the", Space, "source", Space, "link", Space, "for", Space, "full",
      Space, "article.">>

\* transformNewsDataArticleFields taking the first creator name whenever the
\* creator list is present and non-empty
transformNewsDataArticleFields_anyFirstCreator(article) ==
    [id |-> article.article_id,
     title |-> article.title,
     excerpt |-> Or(article.description, article.title),
     author |-> IF ~firstOf(article.creator).null
                THEN firstOf(article.creator)
                ELSE Or(article.source_id, Str(DefaultAuthor)),
     date |-> Str(formatDate(article.pubDate.val)),
     readTime |-> Str(calculateReadTime(
                     Or(Or(article.content, article.description), Str(<<>>)).val)),
     category |-> Or(firstOf(article.category), Str(DefaultCategory)),
     imageUrl |-> Or(article.image_url, Null),
     content |-> Or(Or(article.content, article.description), Str(DefaultContent)),
     link |-> article.link]

\* transformNewsDataArticle on all the fields of a provider record
transformNewsDataArticleFields(article) ==
    [id |-> article.article_id,
     title |-> article.title,
     excerpt |-> Or(article.description, article.title),
     author |-> Or(Or(firstOf(article.creator), article.source_id),
                   Str(DefaultAuthor)),
     date |-> Str(formatDate(article.pubDate.val)),
     readTime |-> Str(calculateReadTime(
                     Or(Or(article.content, article.description), Str(<<>>)).val)),
     category |-> Or(firstOf(article.category), Str(DefaultCategory)),
     imageUrl |-> Or(article.image_url, Null),
     content |-> Or(Or(article.content, article.description), Str(DefaultContent)),
     link |-> article.link]

\* the timestamps passed to formatDate
DateInputs ==
    {<<"2024", "-", "01", "-", "15", Space, "10:30:00">>,
     <<"1995", "-", "11", "-", "16">>,
     <<"2024", "-", "13", "-", "15">>,
     <<"yesterday">>,
     <<>>}

\* the texts passed to calculateReadTime: n words one space apart, one line
\* break apart, with one doubled space, and with a space at the end
TextLayouts(n) ==
    {Join(n, Space), Join(n, Newline), Join(n, Space) \o <<Space>>}
    \cup (IF n >= 2 THEN {<<"w", Space>> \o Tail(Join(n, Space))} ELSE {})

TextInputs ==
    UNION {TextLayouts(k * WordsPerMinute + d) :
             k \in 0..MaxMinutes, d \in {0, 1, WordsPerMinute - 1}}

\* the provider records passed to transformNewsDataArticle
Records ==
    [article_id : {Str(<<"n1">>)},
     title : {Str(<<>>), Str(<<"Title">>)},
     description : {Null, Str(<<>>), Str(Join(2, Space))},
     content : {Null, Str(<<>>), Str(Join(3, Space)),
                Str(Join(MaxMinutes * WordsPerMinute, Space))},
     pubDate : {Str(d) : d \in DateInputs},
     source_id : {Str(<<>>), Str(<<"bbc">>)},
     creator : {Null, Str(<<>>), Str(<<Null>>), Str(<<Str(<<>>)>>),
                Str(<<Str(<<"Al">>)>>), Str(<<Str(<<"Al">>), Str(<<"Bo">>)>>)},
     category : {Null, Str(<<Str(<<"business">>)>>)},
     image_url : {Null, Str(<<"https://img">>)},
     link : {Str(<<"https://src">>)}]

NoRecord ==
    [article_id |-> Null, title |-> Null, description |-> Null,
     content |-> Null, pubDate |-> Null, source_id |-> Null, creator |-> Null,
     category |-> Null, image_url |-> Null, link |-> Null]

NoArticle ==
    [id |-> Null, title |-> Null, excerpt |-> Null, author |-> Null,
     date |-> Null, readTime |-> Null, category |-> Null, imageUrl |-> Null,
     content |-> Null, link |-> Null]

\* a call of function fn; only the argument of fn is set
Call(fn, category, text, article) ==
    [fn |-> fn, category |-> category, text |-> text, article |-> article]

NoCall == Call("none", "", <<>>, NoRecord)

NoResult == [done |-> FALSE, params |-> <<>>, text |-> <<>>, article |-> NoArticle]

\* the calls made in the specification of the pure functions
Calls ==
    {Call("fetchNews", c, <<>>, NoRecord) : c \in categories \cup {""}}
    \cup {Call("formatDate", "", d, NoRecord) : d \in DateInputs}
    \cup {Call("calculateReadTime", "", t, NoRecord) : t \in TextInputs}
    \cup {Call("transformNewsDataArticle", "", <<>>, a) : a \in Records}

\* fetchNews(category) up to the request it sends
FetchNewsRequest ==
    /\ callArg.fn = "fetchNews"
    /\ ~callResult.done
    /\ callResult' = [NoResult EXCEPT !.done = TRUE,
                                      !.params = requestParams(callArg.category)]
    /\ UNCHANGED appVars
    /\ UNCHANGED callArg

FormatDate ==
    /\ callArg.fn = "formatDate"
    /\ ~callResult.done
    /\ callResult' = [NoResult EXCEPT !.done = TRUE,
                                      !.text = formatDate(callArg.text)]
    /\ UNCHANGED appVars
    /\ UNCHANGED callArg

CalculateReadTime ==
    /\ callArg.fn = "calculateReadTime"
    /\ ~callResult.done
    /\ callResult' = [NoResult EXCEPT !.done = TRUE,
                                      !.text = calculateReadTime(callArg.text)]
    /\ UNCHANGED appVars
    /\ UNCHANGED callArg

TransformNewsDataArticle ==
    /\ callArg.fn = "transformNewsDataArticle"
    /\ ~callResult.done
    /\ callResult' = [NoResult EXCEPT !.done = TRUE,
                          !.article = transformNewsDataArticleFields(callArg.article)]
    /\ UNCHANGED appVars
    /\ UNCHANGED callArg

----------------------------------------------------------------------------
(* The component *)

\* what localStorage may hold when the page is opened
InitialStores ==
    {Absent,
     Stored(<<>>),
     Stored(<<Punct("["), StrTok("n1")>>),
     Stored(<<LitTok("null")>>),
     Stored(<<NumTok("5")>>),
     Stored(<<Punct("{"), Punct("}")>>),
     Stored(<<Punct("["), NumTok("5"), Punct("]")>>),
     Stored(<<Punct("["), Punct("]")>>),
     Stored(<<Punct("["), StrTok("n1"), Punct("]")>>),
     Stored(<<Punct("["), StrTok("old"), Punct(","), StrTok("n4"), Punct("]")>>),
     Stored(<<Punct("["), StrTok("n1"), Punct(","), StrTok("n1"), Punct("]")>>)}

\* no call of a pure function apart from the component's own
NoCalls == callArg = NoCall /\ callResult = NoResult

\* useState initial values, before the first effect runs
Constructed(stores) ==
    /\ phase = "constructed"
    /\ storage \in stores
    /\ bookmarks = JsArray(<<>>)
    /\ selectedCategory = "All"
    /\ selectedArticle = None
    /\ articles = <<>>
    /\ loading = TRUE
    /\ error = ErrNull
    /\ currentFeaturedIndex = 0
    /\ isSliding = FALSE
    /\ inflight = {}
    /\ loadsStarted = 0
    /\ lastApplied = 0
    /\ slideInterval = 0
    /\ timeouts = <<>>
    /\ lastOp = Op("init", "")

\* the interval armed by the auto-slide effect for a list of length n
autoSlideEffect(n) == IF n <= 3 THEN 0 ELSE n

\* createRoot(...).render: the effects run once, or under StrictMode in a
\* development build: setup, cleanup, setup
Mount ==
    /\ phase = "constructed"
    /\ \E strict \in BOOLEAN :
         /\ inflight' = IF strict
                        THEN {Load(1, selectedCategory, "mount"),
                              Load(2, selectedCategory, "mount")}
                        ELSE {Load(1, selectedCategory, "mount")}
         /\ loadsStarted' = IF strict THEN 2 ELSE 1
    /\ bookmarks' = loadBookmarks(storage, loadBookmarks(storage, bookmarks))
    /\ loading' = TRUE
    /\ error' = ErrNull
    /\ currentFeaturedIndex' = 0
    /\ slideInterval' = autoSlideEffect(Len(articles))
    /\ phase' = rendered(bookmarks', loading', error', articles,
                         currentFeaturedIndex', selectedArticle)
    /\ UNCHANGED <<callArg, callResult>>
    /\ lastOp' = Op("mount", "")
    /\ UNCHANGED <<storage, selectedCategory, selectedArticle, articles,
                   isSliding, lastApplied, timeouts>>

\* SelectCategory also resetting the bookmark state
SelectCategory_clearsBookmarks(c) ==
    /\ phase = "mounted"
    /\ pageControls(selectedArticle)
    /\ ~loading
    /\ c \in categories \ {"WANTED"}
    /\ c # selectedCategory
    /\ loadsStarted < MaxLoads
    /\ selectedCategory' = c
    /\ loading' = TRUE
    /\ error' = ErrNull
    /\ currentFeaturedIndex' = 0
    /\ loadsStarted' = loadsStarted + 1
    /\ inflight' = inflight \cup {Load(loadsStarted + 1, c, "category")}
    /\ bookmarks' = JsArray(<<>>)
    /\ phase' = rendered(bookmarks', loading', error', articles,
                         currentFeaturedIndex', selectedArticle)
    /\ UNCHANGED <<callArg, callResult>>
    /\ lastOp' = Op("selectCategory", c)
    /\ UNCHANGED <<storage, selectedArticle, articles, isSliding,
                   lastApplied, slideInterval, timeouts>>

\* a category button other than WANTED: setSelectedCategory, then the load
\* effect runs loadNews up to its await
SelectCategory(c) ==
    /\ phase = "mounted"
    /\ pageControls(selectedArticle)
    /\ ~loading
    /\ c \in categories \ {"WANTED"}
    /\ c # selectedCategory
    /\ loadsStarted < MaxLoads
    /\ selectedCategory' = c
    /\ loading' = TRUE
    /\ error' = ErrNull
    /\ currentFeaturedIndex' = 0
    /\ loadsStarted' = loadsStarted + 1
    /\ inflight' = inflight \cup {Load(loadsStarted + 1, c, "category")}
    /\ phase' = rendered(bookmarks, loading', error', articles,
                         currentFeaturedIndex', selectedArticle)
    /\ UNCHANGED <<callArg, callResult>>
    /\ lastOp' = Op("selectCategory", c)
    /\ UNCHANGED <<storage, bookmarks, selectedArticle, articles, isSliding,
                   lastApplied, slideInterval, timeouts>>

\* loadNews without the test of the first id for 'fallback'
loadNews_noNotice(r, err) ==
    IF r.rejected
    THEN [articles |-> getFallbackArticles, error |-> ErrFailed]
    ELSE IF Len(r.val) > 0 /\ r.val[1] = UndefinedId
    THEN [articles |-> getFallbackArticles, error |-> ErrFailed]
    ELSE [articles |-> r.val, error |-> err]

\* loadNews after its await: the articles and the notice it sets
loadNews(r, err) ==
    IF r.rejected
    THEN [articles |-> getFallbackArticles, error |-> ErrFailed]
    ELSE IF Len(r.val) > 0 /\ r.val[1] = UndefinedId
    THEN [articles |-> getFallbackArticles, error |-> ErrFailed]
    ELSE IF Len(r.val) > 0 /\ includesFallback(r.val[1])
    THEN [articles |-> r.val, error |-> ErrDemo]
    ELSE [articles |-> r.val, error |-> err]

\* LoadComplete with setLoading(false) at the end of the try block instead of
\* in finally
LoadComplete_noFinally(l, o) ==
    /\ phase = "mounted"
    /\ l \in inflight
    /\ inflight' = inflight \ {l}
    /\ articles' = loadNews(fetchNews(l.category, o), error).articles
    /\ error' = loadNews(fetchNews(l.category, o), error).error
    /\ loading' = IF error' = ErrFailed THEN loading ELSE FALSE
    /\ lastApplied' = l.seq
    /\ slideInterval' = IF Len(articles') # Len(articles)
                        THEN autoSlideEffect(Len(articles'))
                        ELSE slideInterval
    /\ phase' = rendered(bookmarks, loading', error', articles',
                         currentFeaturedIndex, selectedArticle)
    /\ UNCHANGED <<callArg, callResult>>
    /\ lastOp' = LoadOp(l, o)
    /\ UNCHANGED <<storage, bookmarks, selectedCategory, selectedArticle,
                   currentFeaturedIndex, isSliding, loadsStarted, timeouts>>

\* the request of load l settles with outcome o; fetchNews resolves and
\* loadNews runs to its end
LoadComplete(l, o) ==
    /\ phase = "mounted"
    /\ l \in inflight
    /\ inflight' = inflight \ {l}
    /\ articles' = loadNews(fetchNews(l.category, o), error).articles
    /\ error' = loadNews(fetchNews(l.category, o), error).error
    /\ loading' = FALSE
    /\ lastApplied' = l.seq
    /\ slideInterval' = IF Len(articles') # Len(articles)
                        THEN autoSlideEffect(Len(articles'))
                        ELSE slideInterval
    /\ phase' = rendered(bookmarks, loading', error', articles',
                         currentFeaturedIndex, selectedArticle)
    /\ UNCHANGED <<callArg, callResult>>
    /\ lastOp' = LoadOp(l, o)
    /\ UNCHANGED <<storage, bookmarks, selectedCategory, selectedArticle,
                   currentFeaturedIndex, isSliding, loadsStarted, timeouts>>

\* from: the index when a next click scheduled the callback (read by
\* properties only)
Timeout(kind, arg) ==
    [kind |-> kind, arg |-> arg,
     from |-> IF kind = "next" THEN currentFeaturedIndex ELSE 0]

\* the 8 s interval fires; consecutive ticks are more than 300 ms apart
AutoSlideTick ==
    /\ phase = "mounted"
    /\ slideInterval # 0
    /\ Len(timeouts) < MaxTimeouts
    /\ \A i \in 1..Len(timeouts) : timeouts[i].kind # "auto"
    /\ isSliding' = TRUE
    /\ timeouts' = Append(timeouts, Timeout("auto", slideInterval))
    /\ UNCHANGED <<callArg, callResult>>
    /\ lastOp' = Op("autoSlideTick", "")
    /\ UNCHANGED <<phase, storage, bookmarks, selectedCategory, selectedArticle,
                   articles, loading, error, currentFeaturedIndex, inflight,
                   loadsStarted, lastApplied, slideInterval>>

featuredControls ==
    /\ pageControls(selectedArticle)
    /\ ~loading
    /\ error = ErrNull
    /\ hasCurrentFeatured(articles, currentFeaturedIndex)
    /\ Len(featuredArticles(articles)) > 1

\* ManualNext capturing the length of the whole list
ManualNext_wholeList ==
    /\ phase = "mounted"
    /\ featuredControls
    /\ Len(timeouts) < MaxTimeouts
    /\ isSliding' = TRUE
    /\ timeouts' = Append(timeouts, Timeout("next", Len(articles) - 1))
    /\ UNCHANGED <<callArg, callResult>>
    /\ lastOp' = Op("manualNext", "")
    /\ UNCHANGED <<phase, storage, bookmarks, selectedCategory, selectedArticle,
                   articles, loading, error, currentFeaturedIndex, inflight,
                   loadsStarted, lastApplied, slideInterval>>

\* the next button
ManualNext ==
    /\ phase = "mounted"
    /\ featuredControls
    /\ Len(timeouts) < MaxTimeouts
    /\ isSliding' = TRUE
    /\ timeouts' = Append(timeouts,
                          Timeout("next", Len(featuredArticles(articles)) - 1))
    /\ UNCHANGED <<callArg, callResult>>
    /\ lastOp' = Op("manualNext", "")
    /\ UNCHANGED <<phase, storage, bookmarks, selectedCategory, selectedArticle,
                   articles, loading, error, currentFeaturedIndex, inflight,
                   loadsStarted, lastApplied, slideInterval>>

\* selector dot k
ManualJump(k) ==
    /\ phase = "mounted"
    /\ featuredControls
    /\ k \in 0..(Len(featuredArticles(articles)) - 1)
    /\ Len(timeouts) < MaxTimeouts
    /\ isSliding' = TRUE
    /\ timeouts' = Append(timeouts, Timeout("jump", k))
    /\ UNCHANGED <<callArg, callResult>>
    /\ lastOp' = Op("manualJump", "")
    /\ UNCHANGED <<phase, storage, bookmarks, selectedCategory, selectedArticle,
                   articles, loading, error, currentFeaturedIndex, inflight,
                   loadsStarted, lastApplied, slideInterval>>

\* timeoutIndex with the automatic advance wrapping after the second slide
timeoutIndex_wrapsAtOne(t, prev) ==
    CASE t.kind = "auto" -> IF prev >= Min(t.arg - 1, 1) THEN 0 ELSE prev + 1
      [] t.kind = "next" -> IF prev >= t.arg THEN 0 ELSE prev + 1
      [] OTHER -> t.arg

\* the index a 300 ms callback sets
timeoutIndex(t, prev) ==
    CASE t.kind = "auto" -> IF prev >= Min(t.arg - 1, 2) THEN 0 ELSE prev + 1
      [] t.kind = "next" -> IF prev >= t.arg THEN 0 ELSE prev + 1
      [] OTHER -> t.arg

\* TimeoutFire without setIsSliding(false)
TimeoutFire_keepsSliding ==
    /\ phase = "mounted"
    /\ timeouts # <<>>
    /\ currentFeaturedIndex' = timeoutIndex(Head(timeouts), currentFeaturedIndex)
    /\ timeouts' = Tail(timeouts)
    /\ phase' = rendered(bookmarks, loading, error, articles,
                         currentFeaturedIndex', selectedArticle)
    /\ UNCHANGED <<callArg, callResult>>
    /\ lastOp' = Op("timeoutFire", Head(timeouts).kind)
    /\ UNCHANGED <<storage, bookmarks, selectedCategory, selectedArticle,
                   articles, loading, error, inflight, loadsStarted,
                   lastApplied, slideInterval, isSliding>>

\* the oldest pending 300 ms callback runs
TimeoutFire ==
    /\ phase = "mounted"
    /\ timeouts # <<>>
    /\ currentFeaturedIndex' = timeoutIndex(Head(timeouts), currentFeaturedIndex)
    /\ isSliding' = FALSE
    /\ timeouts' = Tail(timeouts)
    /\ phase' = rendered(bookmarks, loading, error, articles,
                         currentFeaturedIndex', selectedArticle)
    /\ UNCHANGED <<callArg, callResult>>
    /\ lastOp' = Op("timeoutFire", Head(timeouts).kind)
    /\ UNCHANGED <<storage, bookmarks, selectedCategory, selectedArticle,
                   articles, loading, error, inflight, loadsStarted,
                   lastApplied, slideInterval>>

\* ToggleBookmark putting a new id in front of the list
ToggleBookmark_prepends(id) ==
    /\ phase = "mounted"
    /\ id \in bookmarkClickable(loading, error, articles, currentFeaturedIndex,
                                selectedArticle)
    /\ bookmarksIncludes(bookmarks, id) \/ Len(bookmarks.items) < MaxBookmarks
    /\ bookmarks' = IF bookmarksIncludes(bookmarks, id)
                    THEN toggleBookmark(bookmarks, id)
                    ELSE JsArray(<<JsString(id)>> \o bookmarks.items)
    /\ storage' = [present |-> TRUE, text |-> JSONstringify(bookmarks')]
    /\ UNCHANGED <<callArg, callResult>>
    /\ lastOp' = Op("toggleBookmark", id)
    /\ UNCHANGED <<phase, selectedCategory, selectedArticle, articles, loading,
                   error, currentFeaturedIndex, isSliding, inflight,
                   loadsStarted, lastApplied, slideInterval, timeouts>>

\* a bookmark button of article id
ToggleBookmark(id) ==
    /\ phase = "mounted"
    /\ id \in bookmarkClickable(loading, error, articles, currentFeaturedIndex,
                                selectedArticle)
    /\ bookmarksIncludes(bookmarks, id) \/ Len(bookmarks.items) < MaxBookmarks
    /\ bookmarks' = toggleBookmark(bookmarks, id)
    /\ storage' = toggleStore(bookmarks, id)
    /\ UNCHANGED <<callArg, callResult>>
    /\ lastOp' = Op("toggleBookmark", id)
    /\ UNCHANGED <<phase, selectedCategory, selectedArticle, articles, loading,
                   error, currentFeaturedIndex, isSliding, inflight,
                   loadsStarted, lastApplied, slideInterval, timeouts>>

\* a READ button of article id
OpenModal(id) ==
    /\ phase = "mounted"
    /\ id \in readButtons(loading, error, articles, currentFeaturedIndex,
                          selectedArticle)
    /\ selectedArticle' = id
    /\ UNCHANGED <<callArg, callResult>>
    /\ lastOp' = Op("openModal", id)
    /\ UNCHANGED <<phase, storage, bookmarks, selectedCategory, articles,
                   loading, error, currentFeaturedIndex, isSliding, inflight,
                   loadsStarted, lastApplied, slideInterval, timeouts>>

\* closeModal
CloseModal ==
    /\ phase = "mounted"
    /\ selectedArticle # None
    /\ selectedArticle' = None
    /\ UNCHANGED <<callArg, callResult>>
    /\ lastOp' = Op("closeModal", "")
    /\ UNCHANGED <<phase, storage, bookmarks, selectedCategory, articles,
                   loading, error, currentFeaturedIndex, isSliding, inflight,
                   loadsStarted, lastApplied, slideInterval, timeouts>>

----------------------------------------------------------------------------
(* Specifications *)

\* the whole component
AppStores ==
    {Stored(<<Punct("["), StrTok("old"), Punct("]")>>),
     Stored(<<Punct("["), StrTok("old"), Punct(","), StrTok("n4"), Punct("]")>>),
     Stored(<<Punct("{"), Punct("}")>>)}

Init == Constructed(AppStores) /\ NoCalls

Next ==
    \/ Mount
    \/ \E c \in UsedCategories : SelectCategory(c)
    \/ \E l \in inflight, o \in Outcomes : LoadComplete(l, o)
    \/ AutoSlideTick
    \/ ManualNext
    \/ \E k \in 0..2 : ManualJump(k)
    \/ TimeoutFire
    \/ \E id \in Range(articles) \cup {selectedArticle} : ToggleBookmark(id)
    \/ \E id \in Range(articles) : OpenModal(id)
    \/ CloseModal

Spec == Init /\ [][Next]_vars

\* the feed loader and the featured rotation
FeedStores == {Absent, Stored(<<Punct("{"), Punct("}")>>)}

InitFeed == Constructed(FeedStores) /\ NoCalls

NextFeed ==
    \/ Mount
    \/ \E c \in UsedCategories : SelectCategory(c)
    \/ \E l \in inflight, o \in Outcomes : LoadComplete(l, o)
    \/ AutoSlideTick
    \/ ManualNext
    \/ \E k \in 0..2 : ManualJump(k)
    \/ TimeoutFire

SpecFeed == InitFeed /\ [][NextFeed]_vars

\* the bookmark store with the cards and the modal that call it
InitBookmarks == Constructed(InitialStores) /\ NoCalls

NextBookmarks ==
    \/ Mount
    \/ \E l \in inflight, o \in Outcomes : LoadComplete(l, o)
    \/ \E id \in Range(articles) \cup {selectedArticle} : ToggleBookmark(id)
    \/ \E id \in Range(articles) : OpenModal(id)
    \/ CloseModal

SpecBookmarks == InitBookmarks /\ [][NextBookmarks]_vars

\* the featured rotation left to its timers: no category change and no
\* manual navigation.  The event loop runs every interval and timeout
\* callback that is due, hence the weak fairness of both.
NextRotation ==
    \/ Mount
    \/ \E l \in inflight, o \in Outcomes : LoadComplete(l, o)
    \/ AutoSlideTick
    \/ TimeoutFire

SpecRotation ==
    /\ InitFeed
    /\ [][NextRotation]_vars
    /\ WF_vars(AutoSlideTick)
    /\ WF_vars(TimeoutFire)

\* the rotation with its manual controls on the lists of the mount loads,
\* where every 300 ms callback that is pending runs: the event loop runs a
\* timeout that is due
NextSliding ==
    \/ Mount
    \/ \E l \in inflight, o \in Outcomes : LoadComplete(l, o)
    \/ AutoSlideTick
    \/ ManualNext
    \/ \E k \in 0..2 : ManualJump(k)
    \/ TimeoutFire

SpecSliding ==
    /\ InitFeed
    /\ [][NextSliding]_vars
    /\ WF_vars(TimeoutFire)

\* the request of some load settles
Settle == \E l \in inflight, o \in Outcomes : LoadComplete(l, o)

\* the feed loader, where every HTTP request settles in the end
NextLoads ==
    \/ Mount
    \/ \E c \in UsedCategories : SelectCategory(c)
    \/ Settle

SpecLoads ==
    /\ InitFeed
    /\ [][NextLoads]_vars
    /\ WF_vars(Settle)

\* the pure functions, each applied once to an argument drawn by Init
InitFunctions ==
    /\ Constructed({Absent})
    /\ callArg \in Calls
    /\ callResult = NoResult

NextFunctions ==
    \/ FetchNewsRequest
    \/ FormatDate
    \/ CalculateReadTime
    \/ TransformNewsDataArticle

SpecFunctions == InitFunctions /\ [][NextFunctions]_vars

----------------------------------------------------------------------------
(* Properties *)

TypeOK ==
    /\ phase \in {"constructed", "mounted", "crashed"}
    /\ currentFeaturedIndex \in 0..2
    /\ loading \in BOOLEAN
    /\ Len(timeouts) <= MaxTimeouts

NoDup(s) == \A i, j \in 1..Len(s) : s[i] = s[j] => i = j

\* C1: whatever the outcome of the request, fetchNews resolves (it does not
\* reject) to a non-empty list, and the list installed by the load is
\* non-empty.
C1_FetchNewsResolvesNonEmpty ==
    lastOp.op = "loadComplete" =>
        /\ ~fetchNews(lastOp.load.category, lastOp.outcome).rejected
        /\ fetchNews(lastOp.load.category, lastOp.outcome).val # <<>>
        /\ articles # <<>>

\* a load has completed on a response with a null record, which makes
\* transformNewsDataArticle throw
C1_Witness ==
    /\ lastOp.op = "loadComplete"
    /\ NullRecord \in Range(lastOp.outcome.results)
    /\ articles = getFallbackArticles

\* C2: only the most recently initiated load updates the visible state: the
\* completion of a load initiated before the one installed last leaves the
\* articles, the notice and the loading flag as they are.
C2_LatestFetchWins ==
    [][lastApplied' < lastApplied =>
         (articles' = articles /\ error' = error /\ loading' = loading)]_vars

\* C3: the featured index is in {0,1,2} and, for a non-empty list, at most
\* articles.length - 1.
C3_FeaturedIndexValid ==
    /\ currentFeaturedIndex \in {0, 1, 2}
    /\ articles # <<>> => currentFeaturedIndex <= Len(articles) - 1

\* C4: when a load started by a category change installs its list, the
\* featured index is 0.
C4_IndexZeroOnInstall ==
    (lastOp.op = "loadComplete" /\ lastOp.load.cause = "category")
        => currentFeaturedIndex = 0

\* C5: toggleBookmark(id) flips the membership of id, and a second
\* toggleBookmark(id) gives id the membership it had before the first.
C5_ToggleFlipsAndRestores ==
    [][lastOp'.op = "toggleBookmark" =>
         /\ bookmarksIncludes(bookmarks', lastOp'.arg)
              <=> ~bookmarksIncludes(bookmarks, lastOp'.arg)
         /\ bookmarksIncludes(toggleBookmark(bookmarks', lastOp'.arg), lastOp'.arg)
              <=> bookmarksIncludes(bookmarks, lastOp'.arg)]_vars

\* a toggle has removed an id from a list that still holds another one
C5_Witness ==
    /\ lastOp.op = "toggleBookmark"
    /\ ~bookmarksIncludes(bookmarks, lastOp.arg)
    /\ Len(bookmarks.items) > 0

\* C6: after initialization no identifier occurs twice in the in-memory list,
\* nor in the value a toggle has persisted.
C6_NoDuplicateBookmarks ==
    /\ phase # "constructed" => NoDup(bookmarks.items)
    /\ lastOp.op = "toggleBookmark" => NoDup(JSONparse(storage.text).val.items)

\* the persisted data deserializes into a list of identifiers
storedIdList(store) ==
    /\ JSONparse(store.text).ok
    /\ JSONparse(store.text).val.t = "array"
    /\ \A i \in 1..Len(JSONparse(store.text).val.items) :
         JSONparse(store.text).val.items[i].t = "string"

\* C7: persisted data that is not a list of identifiers initializes the
\* bookmarks to the empty list, the bookmarks are a list from then on, and
\* no error is surfaced.
C7_CorruptStoreGivesEmptyList ==
    /\ (lastOp.op = "mount" /\ storage.present /\ ~storedIdList(storage))
          => bookmarks = JsArray(<<>>)
    /\ phase # "constructed" => bookmarks.t = "array"
    /\ phase # "crashed"

persistedInSync == storage = Stored(JSONstringify(bookmarks))

\* C8: after a toggle the persisted value is the serialization of the
\* in-memory list, and once they agree no step makes them disagree.
C8_PersistedMatchesAfterToggle ==
    [][(lastOp'.op = "toggleBookmark" \/ persistedInSync) => persistedInSync']_vars

\* a toggle has appended to a non-empty list and the store holds both ids
C8_Witness ==
    /\ lastOp.op = "toggleBookmark"
    /\ Len(bookmarks.items) = 2
    /\ bookmarks.items[2] = JsString(lastOp.arg)
    /\ JSONparse(storage.text).val = bookmarks

\* C9: once mounted, only toggleBookmark changes the bookmarks or the
\* persisted value.
C9_OnlyToggleChangesBookmarks ==
    [][(phase # "constructed" /\ (bookmarks' # bookmarks \/ storage' # storage))
          => lastOp'.op = "toggleBookmark"]_vars

\* a load after a category change has replaced the list and the bookmark of
\* an article of the previous list is still there
C9_Witness ==
    /\ lastOp.op = "loadComplete"
    /\ lastOp.load.cause = "category"
    /\ selectedCategory = "business"
    /\ Len(bookmarks.items) = 2
    /\ \A i \in 1..2 : bookmarks.items[i].v \notin Range(articles)
    /\ storage = Stored(JSONstringify(bookmarks))

emptySuccess(o) ==
    o.kind = "body" /\ o.status = "success" /\ (~o.hasResults \/ o.results = <<>>)

\* C10: a 'success' response with missing or empty results makes fetchNews
\* return the two fallback entries 'fallback-1', 'fallback-2', in that order.
C10_EmptyResultsGiveFallback ==
    (lastOp.op = "loadComplete" /\ emptySuccess(lastOp.outcome)) =>
        /\ fetchNews(lastOp.load.category, lastOp.outcome).val = <<"fallback-1", "fallback-2">>
        /\ articles = <<"fallback-1", "fallback-2">>

\* a load has completed on {status: 'success', results: []}
C10_Witness ==
    /\ lastOp.op = "loadComplete"
    /\ emptySuccess(lastOp.outcome)
    /\ lastOp.outcome.hasResults
    /\ articles = getFallbackArticles
    /\ error = ErrDemo

\* a non-success HTTP status, or a parsed body whose status is not 'success'
failedStatus(o) ==
    o.kind = "http" \/ (o.kind = "body" /\ o.status # "success")

\* C11: on a non-success HTTP status or a body status other than 'success',
\* fetchNews returns the fallback list and no record of the response is in
\* the list, whatever the results field holds.
C11_FailedStatusGivesFallback ==
    (lastOp.op = "loadComplete" /\ failedStatus(lastOp.outcome)) =>
        /\ fetchNews(lastOp.load.category, lastOp.outcome).val = getFallbackArticles
        /\ articles = getFallbackArticles
        /\ \A i \in 1..Len(lastOp.outcome.results) :
             lastOp.outcome.results[i] \notin Range(articles)

\* a load has completed on a body with status 'error' that carries records
C11_Witness ==
    /\ lastOp.op = "loadComplete"
    /\ lastOp.outcome.kind = "body"
    /\ lastOp.outcome.status = "error"
    /\ Len(lastOp.outcome.results) > 0
    /\ articles = getFallbackArticles

\* the value of parameter k of a request, "" when the request has none
paramValue(params, k) ==
    IF \E i \in 1..Len(params) : params[i].key = k
    THEN params[CHOOSE i \in 1..Len(params) : params[i].key = k].value
    ELSE ""

hasParam(params, k) == \E i \in 1..Len(params) : params[i].key = k

ProviderTags ==
    {"business", "technology", "sports", "entertainment", "politics",
     "world", "science", "health", "top"}

\* C12: the request of fetchNews(category) carries category=<tag> exactly
\* when the category is one of the nine provider tags, and none for 'All',
\* '' and 'WANTED'; every request carries language=en and size=10.
C12_CategoryParameter ==
    (callArg.fn = "fetchNews" /\ callResult.done) =>
        /\ hasParam(callResult.params, "category") <=> callArg.category \in ProviderTags
        /\ callArg.category \in ProviderTags =>
             paramValue(callResult.params, "category") = callArg.category
        /\ Cardinality({i \in 1..Len(callResult.params) :
                          callResult.params[i].key = "category"}) <= 1
        /\ paramValue(callResult.params, "language") = "en"
        /\ paramValue(callResult.params, "size") = "10"

\* fetchNews('WANTED') has sent its request, without a category parameter
C12_Witness ==
    /\ callArg.fn = "fetchNews"
    /\ callArg.category = "WANTED"
    /\ callResult.done
    /\ ~hasParam(callResult.params, "category")

\* the optional fields of a provider record are all absent
optionalsAbsent(article) ==
    /\ article.description.null
    /\ article.content.null
    /\ article.creator.null
    /\ article.image_url.null

\* C13: for a provider record whose optional fields (description, content,
\* creator, image_url) are all absent, the title, excerpt, author, date and
\* readTime of the transformed article are non-empty strings.
C13_DefaultsGiveNonEmptyFields ==
    (/\ callArg.fn = "transformNewsDataArticle"
     /\ callResult.done
     /\ optionalsAbsent(callArg.article)) =>
        /\ truthy(callResult.article.title)
        /\ truthy(callResult.article.excerpt)
        /\ truthy(callResult.article.author)
        /\ truthy(callResult.article.date)
        /\ truthy(callResult.article.readTime)

\* a long-form en-US date: 'Month D, YYYY'
isLongDate(text) ==
    /\ Len(text) = 5
    /\ text[1] \in Range(Months)
    /\ text[2] = Space
    /\ \E d \in 1..31 : text[3] = ToString(d) \o ","
    /\ text[4] = Space
    /\ text[5] \in Years

\* C14: formatDate returns the raw string unchanged for an unparseable
\* timestamp and a long-form en-US date for a parseable one.
C14_FormatDateKeepsUnparseable ==
    (callArg.fn = "formatDate" /\ callResult.done) =>
        IF NewDate(callArg.text).valid
        THEN isLongDate(callResult.text)
        ELSE callResult.text = callArg.text

\* the number of words of a text: its maximal runs of non-blank characters
wordCount(text) ==
    Cardinality({i \in 1..Len(text) :
                   /\ text[i] \notin {Space, Newline}
                   /\ i = 1 \/ text[i - 1] \in {Space, Newline}})

\* ceiling(n / WordsPerMinute), at least 1
minutesFor(n) ==
    IF n = 0 THEN 1 ELSE (n + WordsPerMinute - 1) \div WordsPerMinute

\* C15: calculateReadTime returns '<m> min read' with m the ceiling of the
\* number of words over 200 and at least 1; an article whose body and
\* excerpt are both empty gets '1 min read'.
C15_ReadTimeFromWordCount ==
    /\ (callArg.fn = "calculateReadTime" /\ callResult.done) =>
          callResult.text = minRead(minutesFor(wordCount(callArg.text)))
    /\ (/\ callArg.fn = "transformNewsDataArticle"
        /\ callResult.done
        /\ ~truthy(callArg.article.content)
        /\ ~truthy(callArg.article.description)) =>
          callResult.article.readTime = Str(minRead(1))

\* the creator list has a first creator name
hasFirstCreator(article) ==
    /\ ~article.creator.null
    /\ Len(article.creator.val) >= 1
    /\ ~article.creator.val[1].null
    /\ article.creator.val[1].val # <<>>

\* C16: the author is the first creator name when the creator list has one,
\* otherwise the source id when it is non-empty, otherwise 'NewsWale Staff';
\* a null list, an empty list and an empty first name have no creator name.
C16_AuthorPrecedence ==
    (callArg.fn = "transformNewsDataArticle" /\ callResult.done) =>
        callResult.article.author =
            IF hasFirstCreator(callArg.article)
            THEN callArg.article.creator.val[1]
            ELSE IF callArg.article.source_id.val # <<>>
            THEN callArg.article.source_id
            ELSE Str(DefaultAuthor)

\* a record whose first creator name is '' and whose source id is not empty
\* has been transformed: the author is the source id
C16_Witness ==
    /\ callArg.fn = "transformNewsDataArticle"
    /\ callResult.done
    /\ callArg.article.creator = Str(<<Str(<<>>)>>)
    /\ callArg.article.source_id = Str(<<"bbc">>)
    /\ callResult.article.author = Str(<<"bbc">>)

\* the failures of a request: network, HTTP status, malformed or
\* error-flagged JSON, no results
failedRequest(o) ==
    \/ o.kind \in {"network", "http", "badjson"}
    \/ o.kind = "body" /\ o.status # "success"
    \/ o.kind = "body" /\ o.status = "success"
         /\ (~o.hasResults \/ Len(o.results) = 0)

\* C17: when a load completes on a failed request (network, HTTP status,
\* malformed or error-flagged JSON, empty results), the articles are the
\* fallback list and the notice is the demo-content message.
C17_FailureShowsFallbackAndNotice ==
    (lastOp.op = "loadComplete" /\ failedRequest(lastOp.outcome)) =>
        /\ articles = getFallbackArticles
        /\ error = ErrDemo

\* a load has completed on a body that is not JSON
C17_Witness ==
    /\ lastOp.op = "loadComplete"
    /\ lastOp.outcome.kind = "badjson"
    /\ articles = getFallbackArticles
    /\ error = ErrDemo
    /\ ~loading

\* the id starts with 'fallback-'
startsWithFallback(id) ==
    /\ Len(IdText(id)) >= 2
    /\ IdText(id)[1] = "fallback"
    /\ IdText(id)[2] = "-"

\* C18: a load that installs provider articles whose first id does not start
\* with 'fallback-' does not raise the notice, and a load raises the notice
\* only when the list it installs is the fallback list.
C18_NoticeOnlyForFallbackPrefix ==
    [][lastOp'.op = "loadComplete" =>
         /\ ~startsWithFallback(articles'[1]) => error' = error
         /\ error' # error => articles' = getFallbackArticles]_vars

\* the component is mounted on a list of more than three articles that no
\* pending load will replace
rotating ==
    /\ phase = "mounted"
    /\ inflight = {}
    /\ Len(articles) > 3

\* C19: while the component is mounted on an unchanged list of more than
\* three articles and nothing is done by hand, the automatic advance keeps
\* firing: every step of it takes the index from 0 to 1, 1 to 2 and 2 to 0,
\* and each of 0, 1 and 2 is the index again and again.
C19_RotationNeverStops ==
    /\ [][(rotating /\ lastOp'.op = "timeoutFire") =>
            currentFeaturedIndex' = (currentFeaturedIndex + 1) % 3]_vars
    /\ \A k \in 0..2 : [](rotating => <>(rotating /\ currentFeaturedIndex = k))

\* an automatic advance has just wrapped the index on a list of four or more
C19_Witness ==
    /\ rotating
    /\ lastOp.op = "timeoutFire"
    /\ currentFeaturedIndex = 0
    /\ slideInterval = Len(articles)

\* C20: once the list has changed length, no rotation step scheduled under
\* the previous list takes effect: an interval callback runs, and the 300 ms
\* callback of an automatic advance sets the index and the sliding flag, only
\* for the length of the current list; so never on a list of three or fewer.
C20_StaleRotationCancelled ==
    [][/\ lastOp'.op = "autoSlideTick" => slideInterval = Len(articles)
       /\ (lastOp'.op = "timeoutFire" /\ Head(timeouts).kind = "auto") =>
             /\ Head(timeouts).arg = Len(articles)
             /\ Len(articles) > 3]_vars

\* the timeout scheduled by the step
scheduled == timeouts'[Len(timeouts')]

\* C21 as stated: the 300 ms callback of a next click taken at index i with n
\* featured articles sets the index to i + 1 when i < n - 1 and to 0
\* otherwise, and that of a click on selector k sets it to k.
C21_NextFromClickIndex ==
    [][/\ (lastOp'.op = "timeoutFire" /\ Head(timeouts).kind = "next") =>
             currentFeaturedIndex' =
                 IF Head(timeouts).from < Head(timeouts).arg
                 THEN Head(timeouts).from + 1 ELSE 0
       /\ (lastOp'.op = "timeoutFire" /\ Head(timeouts).kind = "jump") =>
             currentFeaturedIndex' = Head(timeouts).arg]_vars

\* C21 amended: a click leaves the index as it is and captures n = min(3,
\* articles.length); 300 ms later the callback of a next click sets the index
\* p it finds to p + 1 when p < n - 1 and to 0 otherwise, and that of a click
\* on selector k, 0 <= k < n, sets it to k.
C21_ManualNavigation ==
    [][/\ lastOp'.op = "manualNext" =>
             /\ scheduled.kind = "next"
             /\ scheduled.arg = Min(3, Len(articles)) - 1
             /\ scheduled.arg >= 1
             /\ currentFeaturedIndex' = currentFeaturedIndex
       /\ lastOp'.op = "manualJump" =>
             /\ scheduled.kind = "jump"
             /\ scheduled.arg \in 0..(Min(3, Len(articles)) - 1)
             /\ currentFeaturedIndex' = currentFeaturedIndex
       /\ (lastOp'.op = "timeoutFire" /\ Head(timeouts).kind = "next") =>
             currentFeaturedIndex' =
                 IF currentFeaturedIndex < Head(timeouts).arg
                 THEN currentFeaturedIndex + 1 ELSE 0
       /\ (lastOp'.op = "timeoutFire" /\ Head(timeouts).kind = "jump") =>
             currentFeaturedIndex' = Head(timeouts).arg]_vars

\* the callback of a next click has wrapped the index to 0
C21_Witness ==
    /\ lastOp.op = "timeoutFire"
    /\ lastOp.arg = "next"
    /\ currentFeaturedIndex = 0
    /\ Len(articles) >= 3
    /\ ~isSliding

\* C22: the sliding flag is transient: while the component is mounted, a
\* raised flag has its 300 ms callback pending, and is lowered again (or the
\* component is gone), whatever transitions overlap.
C22_SlidingIsTransient ==
    /\ []((phase = "mounted" /\ isSliding) => timeouts # <<>>)
    /\ (phase = "mounted" /\ isSliding) ~> (~isSliding \/ phase = "crashed")

\* two transitions overlapped: the callback of the first has lowered the flag
\* while that of the second is still pending
C22_Witness ==
    /\ phase = "mounted"
    /\ lastOp.op = "timeoutFire"
    /\ ~isSliding
    /\ timeouts # <<>>

\* C23: persisting and rehydrating is a round trip: after every toggle, a
\* freshly opened page reads from the store exactly the list of the current
\* page, same identifiers in the same order, the empty list included.
C23_PersistRehydrateRoundTrip ==
    lastOp.op = "toggleBookmark" => rehydrate(storage) = bookmarks

\* the last bookmark has been removed: the store holds '[]', which a fresh
\* page reads as the empty list
C23_Witness ==
    /\ lastOp.op = "toggleBookmark"
    /\ bookmarks = JsArray(<<>>)
    /\ storage = Stored(<<Punct("["), Punct("]")>>)
    /\ rehydrate(storage) = JsArray(<<>>)

\* the entries of a list other than id, in their order
others(list, id) == SeqFilterOut(list.items, JsString(id))

C25_LoadingEventuallyFalse ==
    /\ [][lastOp'.op = "loadComplete" => ~loading']_vars
    /\ (phase = "mounted" /\ loading) ~> ~loading

\* a load whose result made loadNews throw has finished with loading = false
C25_Witness ==
    /\ lastOp.op = "loadComplete"
    /\ NoIdRecord \in Range(lastOp.outcome.results)
    /\ error = ErrFailed
    /\ ~loading

\* C26: at most one fetch is in flight at any time, and the mounted
\* component has loading = true exactly while a fetch is outstanding.
C26_OneFetchInFlight ==
    /\ Cardinality(inflight) <= 1
    /\ phase = "mounted" => (loading <=> inflight # {})

====
